---- MODULE Spec2Model ----
(***************************************************************************)
(* State-machine model of the Tibetan speech-to-text recorder:             *)
(*   - the TibetanMicSTT React component                                   *)
(*     (src/src/components/TibetanMicSTT.tsx): its useState cells, its     *)
(*     refs, the browser objects it creates (media streams, recorders,     *)
(*     intervals, object URLs, permission status) and the callbacks and    *)
(*     promise continuations that outlive the render that created them;    *)
(*   - the /api/stt route handler POST (src/unnamed/part_002).             *)
(*                                                                         *)
(* One action is one event-loop task: a click handler, a promise           *)
(* continuation, an interval callback or a media event, together with the  *)
(* React re-render and the effect cleanup / effect run it causes.          *)
(***************************************************************************)
EXTENDS Integers, Sequences, FiniteSets, TLC

\* ------------------------------------------------------------------------
\* Bounds of the model (not program constants)
\* ------------------------------------------------------------------------
\* microphone requests (pending getUserMedia calls + acquired streams)
MaxStreams == 2
\* permission change events queued and not yet dispatched
MaxPermEvents == 1
\* submit requests in flight that the model follows
MaxInFlight == 2

\* ------------------------------------------------------------------------
\* Program constants
\* ------------------------------------------------------------------------
MAX_RECORDING_TIME == 120

\* setError / setTranscription values.  An error is a tuple <<message>> or
\* <<message, detail>>; the empty tuple is the empty string ''.
NoError == <<>>
MicErrorMsg == "Error accessing microphone"
FailedMsg == "Failed to convert speech to text"
UnexpectedMsg == "Unexpected response format from API"
StopErrorMsg == "Error stopping recording. Please refresh the page."
ProxyErrorText == "Error processing speech to text"

\* ------------------------------------------------------------------------
\* Values exchanged with the outside world
\* ------------------------------------------------------------------------
PermissionStates == {"prompt", "granted", "denied"}

\* transcript texts and error texts an upstream body may carry
Outputs == {"t1", "t2"}
ErrTexts == {"x"}

\* A JSON object as the handlers see it after json(): the output and error
\* members of MonlamAPIResponse, each present or absent.
Bodies ==
  [hasOutput : {TRUE}, output : Outputs \cup {""}, hasError : {FALSE}, error : {""}]
    \cup
  [hasOutput : {TRUE}, output : Outputs \cup {""}, hasError : {TRUE}, error : ErrTexts]
    \cup
  [hasOutput : {FALSE}, output : {""}, hasError : {FALSE}, error : {""}]
    \cup
  [hasOutput : {FALSE}, output : {""}, hasError : {TRUE}, error : ErrTexts]

NoBody == [hasOutput |-> FALSE, output |-> "", hasError |-> FALSE, error |-> ""]

\* The bytes of an HTTP body: either the encoding of a JSON object or
\* something that is not JSON (an HTML error page, a truncated body).
Payloads == [json : {TRUE}, val : Bodies] \cup {[json |-> FALSE, val |-> NoBody]}

VARIABLES
  mounted,          \* the component is mounted
  isRecording,      \* useState cells
  transcription,
  error,
  isLoading,
  remainingTime,
  audioUrl,         \* 0 is null, u > 0 is the u-th object URL created
  micPermission,
  mediaRecorderRef, \* 0 is null, r > 0 is the recorder of streams[r]
  timerRef,         \* 0 is null, t > 0 is the interval of streams[t]
  pendingStarts,    \* startRecording calls awaiting getUserMedia
  streams,          \* acquired media streams with their recorder and timer
  urlRevokes,       \* urlRevokes[u]: number of revokeObjectURL calls on u
  inflight,         \* sendAudioToAPI calls that have not settled
  browserPerm,      \* the browser's microphone permission
  permEvents,       \* 'change' events queued on the PermissionStatus
  queries,          \* permissions.query calls not yet resolved
  listeners,        \* a 'change' listener is registered
  pxIn,             \* proxy: the inbound request and what upstream will do
  pxReply,          \* proxy: the response of POST, or NoReply
  isPlaying,        \* useState cell
  audioPlaying,     \* the preview <audio> element is playing
  posts,            \* POST /api/stt requests sent and not yet answered
  upstreamCalls     \* proxy: fetches of the external API made for pxIn

vars == <<mounted, isRecording, transcription, error, isLoading,
          remainingTime, audioUrl, micPermission, mediaRecorderRef, timerRef,
          pendingStarts, streams, urlRevokes, inflight, browserPerm,
          permEvents, queries, listeners, pxIn, pxReply, isPlaying,
          audioPlaying, posts, upstreamCalls>>

\* ------------------------------------------------------------------------
\* JSON encoding and decoding (Response.json(), NextResponse.json())
\* ------------------------------------------------------------------------
\* Response.json(): the parsed value, or a SyntaxError when the bytes are
\* not JSON.
JsonParse(payload) ==
  IF payload.json THEN [ok |-> TRUE, val |-> payload.val]
                  ELSE [ok |-> FALSE, val |-> NoBody]

JsonStringify(val) == [json |-> TRUE, val |-> val]

\* ------------------------------------------------------------------------
\* The proxy: POST /api/stt   (src/unnamed/part_002)
\* ------------------------------------------------------------------------
UpstreamStatuses == {200, 401, 500}

NonJson == [json |-> FALSE, val |-> NoBody]

\* What the call to the external endpoint does: fetch rejects (network
\* failure), or it answers with a status and a body.
Unreachable == [kind |-> "unreachable", status |-> 0, payload |-> NonJson]

UpstreamOutcomes ==
  {Unreachable} \cup [kind : {"response"}, status : UpstreamStatuses, payload : Payloads]

\* An inbound request: request.formData() succeeds or throws.
Requests == [readable : BOOLEAN]

NoReply == [kind |-> "none", status |-> 0, payload |-> NonJson]

\* NextResponse.json(data, {status}); the status defaults to 200.
NextResponseJson(data, status) ==
  [kind |-> "response", status |-> status, payload |-> JsonStringify(data)]

ProxyErrorBody ==
  [hasOutput |-> FALSE, output |-> "", hasError |-> TRUE, error |-> ProxyErrorText]

\* POST with the upstream status handed on instead of the default 200
POST_RelayStatus(request, upstream) ==
  IF ~request.readable
    THEN NextResponseJson(ProxyErrorBody, 500)
  ELSE IF upstream.kind = "unreachable"
    THEN NextResponseJson(ProxyErrorBody, 500)
  ELSE LET data == JsonParse(upstream.payload) IN
    IF ~data.ok
      THEN NextResponseJson(ProxyErrorBody, 500)
      ELSE NextResponseJson(data.val, upstream.status)

POST(request, upstream) ==
  IF ~request.readable
    THEN NextResponseJson(ProxyErrorBody, 500)       \* formData() throws
  ELSE IF upstream.kind = "unreachable"
    THEN NextResponseJson(ProxyErrorBody, 500)       \* fetch rejects
  ELSE LET data == JsonParse(upstream.payload) IN
    IF ~data.ok
      THEN NextResponseJson(ProxyErrorBody, 500)     \* response.json() throws
      ELSE NextResponseJson(data.val, 200)

\* POST calling the external endpoint a second time when the first call
\* fails or answers with a server error
UpstreamFetches_Retry(request, upstream) ==
  IF ~request.readable THEN 0
  ELSE IF upstream.kind = "unreachable" \/ upstream.status >= 500 THEN 2
  ELSE 1

\* The number of fetches of the external endpoint POST makes for a request:
\* none when formData() throws, otherwise the one of line 17, whatever it
\* yields (no loop, and the catch block only builds the 500 response).
UpstreamFetches(request, upstream) ==
  IF ~request.readable THEN 0 ELSE 1

\* ------------------------------------------------------------------------
\* What the render shows   (TibetanMicSTT.tsx, lines 252-370)
\* ------------------------------------------------------------------------
\* `${mins}:${secs.toString().padStart(2, '0')}` as <<mins, tens, units>>
formatTime(seconds) ==
  LET mins == seconds \div 60
      secs == seconds % 60
  IN  <<mins, secs \div 10, secs % 10>>

\* the literal "2:00"
DefaultLabel == <<2, 0, 0>>

TimerLabel == IF isRecording THEN formatTime(remainingTime) ELSE DefaultLabel

WarningShown == micPermission = "denied"

RecordButtonRendered == audioUrl = 0

RecordButtonDisabled == isLoading \/ micPermission = "denied"

StartControlShown == RecordButtonRendered /\ ~isRecording

StartControlEnabled == StartControlShown /\ ~RecordButtonDisabled

StopControlEnabled == RecordButtonRendered /\ isRecording /\ ~RecordButtonDisabled

PreviewShown == audioUrl # 0

\* the submit button without its disabled attribute
SubmitDisabled_Never == FALSE

SubmitDisabled == isLoading

SubmitEnabled == PreviewShown /\ ~SubmitDisabled

ErrorShown == error # NoError

TranscriptShown == transcription # ""

\* ------------------------------------------------------------------------
\* Browser objects
\* ------------------------------------------------------------------------
\* clearInterval behind `if (timerRef.current)`
ClearInterval(ss, t) ==
  IF t = 0 THEN ss ELSE [ss EXCEPT ![t].timerLive = FALSE]

RevokeObjectURL(ur, u) == [ur EXCEPT ![u] = @ + 1]

\* cleanup of the effect of the render that saw audioUrl = closedUrl
CleanupUrls(ur, closedUrl) ==
  IF closedUrl # 0 THEN RevokeObjectURL(ur, closedUrl) ELSE ur

\* The re-render after a handler that called setAudioUrl(nu) and left the
\* streams ss and the URLs ur: when audioUrl changes, the previous effect's
\* cleanup runs (clearInterval of the current timerRef, revoke of the
\* previous audioUrl) and the effect runs again (checkMicPermission).
\* The <audio> element is rendered only while audioUrl is set and takes it
\* as its src: a change of audioUrl removes the element or reloads it, and
\* either way playback stops.
Rerender(nu, ss, ur, tr) ==
  IF mounted /\ nu # audioUrl
    THEN /\ audioUrl' = nu
         /\ streams' = ClearInterval(ss, tr)
         /\ urlRevokes' = CleanupUrls(ur, audioUrl)
         /\ queries' = queries + 1
         /\ audioPlaying' = FALSE
    ELSE /\ audioUrl' = audioUrl
         /\ streams' = ss
         /\ urlRevokes' = ur
         /\ queries' = queries
         /\ audioPlaying' = audioPlaying

\* ------------------------------------------------------------------------
\* Init: the component has mounted and its effect has run once
\* ------------------------------------------------------------------------
UiInit ==
  /\ mounted = TRUE
  /\ isRecording = FALSE
  /\ transcription = ""
  /\ error = NoError
  /\ isLoading = FALSE
  /\ remainingTime = MAX_RECORDING_TIME
  /\ audioUrl = 0
  /\ micPermission = "prompt"
  /\ mediaRecorderRef = 0
  /\ timerRef = 0
  /\ pendingStarts = <<>>
  /\ streams = <<>>
  /\ urlRevokes = <<>>
  /\ inflight = 0
  /\ browserPerm \in PermissionStates
  /\ permEvents = 0
  /\ queries = 1
  /\ listeners = FALSE
  /\ isPlaying = FALSE
  /\ audioPlaying = FALSE
  /\ posts = 0

PxIdle ==
  /\ pxIn = [request |-> [readable |-> TRUE], upstream |-> Unreachable]
  /\ pxReply = NoReply
  /\ upstreamCalls = 0

Init == UiInit /\ PxIdle

\* ------------------------------------------------------------------------
\* startRecording   (lines 77-160)
\* ------------------------------------------------------------------------
\* The click: the synchronous part up to `await getUserMedia`.  The
\* continuation keeps the stopRecording of this render, and with it this
\* render's isRecording.
StartClick ==
  /\ mounted
  /\ StartControlEnabled
  /\ Len(pendingStarts) + Len(streams) < MaxStreams
  /\ error' = NoError
  /\ transcription' = ""
  /\ Rerender(0, streams, urlRevokes, timerRef)
  /\ pendingStarts' = Append(pendingStarts, [isRecording |-> isRecording])
  /\ UNCHANGED <<mounted, isRecording, isLoading, remainingTime,
                 micPermission, mediaRecorderRef, timerRef, inflight,
                 browserPerm, permEvents, listeners, pxIn, pxReply,
                 isPlaying, posts, upstreamCalls>>

RemoveAt(seq, i) == SubSeq(seq, 1, i - 1) \o SubSeq(seq, i + 1, Len(seq))

\* getUserMedia rejects: the catch block.
GetUserMediaReject(i) ==
  /\ i \in DOMAIN pendingStarts
  /\ pendingStarts' = RemoveAt(pendingStarts, i)
  /\ error' = IF mounted THEN <<MicErrorMsg, "getUserMedia">> ELSE error
  /\ UNCHANGED <<mounted, isRecording, transcription, isLoading,
                 remainingTime, audioUrl, micPermission, mediaRecorderRef,
                 timerRef, streams, urlRevokes, inflight, browserPerm,
                 permEvents, queries, listeners, pxIn, pxReply,
                 isPlaying, audioPlaying, posts, upstreamCalls>>

\* getUserMedia resolves with a stream; then
\*   "ok":          the recorder is created and started, the interval set;
\*   "ctorThrows":  new MediaRecorder(stream, options) throws;
\*   "startThrows": mediaRecorderRef.current.start() throws.
\* The catch block never stops the tracks of the stream.
StartOutcomes == {"ok", "ctorThrows", "startThrows"}

GetUserMediaResolve(i, outcome) ==
  /\ i \in DOMAIN pendingStarts
  /\ browserPerm # "denied"
  /\ pendingStarts' = RemoveAt(pendingStarts, i)
  /\ LET id == Len(streams) + 1
         closure == pendingStarts[i]
     IN
     /\ streams' = Append(streams,
                     [rec |-> IF outcome = "ok" THEN "recording"
                              ELSE IF outcome = "startThrows" THEN "inactive"
                              ELSE "none",
                      tracks |-> "live",
                      timerLive |-> (outcome = "ok"),
                      closure |-> closure])
     /\ mediaRecorderRef' = IF outcome = "ctorThrows" THEN mediaRecorderRef ELSE id
     /\ timerRef' = IF outcome = "ok" THEN id ELSE timerRef
     /\ isRecording' = IF mounted /\ outcome = "ok" THEN TRUE ELSE isRecording
     /\ remainingTime' = IF mounted /\ outcome = "ok" THEN MAX_RECORDING_TIME
                                                       ELSE remainingTime
     /\ error' = IF mounted /\ outcome # "ok" THEN <<MicErrorMsg, outcome>>
                                              ELSE error
  /\ UNCHANGED <<mounted, transcription, isLoading, audioUrl, micPermission,
                 urlRevokes, inflight, browserPerm, permEvents, queries,
                 listeners, pxIn, pxReply,
                 isPlaying, audioPlaying, posts, upstreamCalls>>

\* ------------------------------------------------------------------------
\* stopRecording   (lines 162-178)
\* ------------------------------------------------------------------------
\* The call made by a closure whose render saw isRecording = c.  The refs
\* are read when the call runs.  MediaRecorder.stop() on a recorder that is
\* not recording returns silently or throws InvalidStateError, depending on
\* the browser (throws); the catch block then only sets the error.
stopRecording(c, throws) ==
  IF mediaRecorderRef # 0 /\ c
    THEN IF streams[mediaRecorderRef].rec # "recording" /\ throws
      THEN [streams |-> streams, isRecording |-> isRecording,
            error |-> <<StopErrorMsg>>]
      ELSE [streams |->
              ClearInterval(
                [streams EXCEPT ![mediaRecorderRef] =
                   [@ EXCEPT !.rec = IF @ = "recording" THEN "stopping" ELSE @,
                             !.tracks = "stopped"]],
                timerRef),
            isRecording |-> FALSE,
            error |-> error]
    ELSE [streams |-> streams, isRecording |-> isRecording, error |-> error]

StopClick(throws) ==
  /\ mounted
  /\ StopControlEnabled
  /\ LET r == stopRecording(isRecording, throws) IN
       /\ streams' = r.streams
       /\ isRecording' = r.isRecording
       /\ error' = r.error
  /\ UNCHANGED <<mounted, transcription, isLoading, remainingTime,
                 audioUrl, micPermission, mediaRecorderRef, timerRef,
                 pendingStarts, urlRevokes, inflight, browserPerm,
                 permEvents, queries, listeners, pxIn, pxReply,
                 isPlaying, audioPlaying, posts, upstreamCalls>>

\* ------------------------------------------------------------------------
\* The countdown interval callback   (lines 138-147)
\* ------------------------------------------------------------------------
\* Interval t fires.  setRemainingTime on an unmounted component does
\* nothing (its updater is not run).  The stopRecording it calls is the one
\* of the render in which Start was clicked.
Tick(t, throws) ==
  /\ t \in DOMAIN streams
  /\ streams[t].timerLive
  /\ IF ~mounted
       THEN UNCHANGED <<streams, isRecording, remainingTime, error>>
     ELSE IF remainingTime <= 1
       THEN LET r == stopRecording(streams[t].closure.isRecording, throws) IN
              /\ streams' = ClearInterval(r.streams, timerRef)
              /\ isRecording' = r.isRecording
              /\ error' = r.error
              /\ remainingTime' = 0
       ELSE /\ remainingTime' = remainingTime - 1
            /\ UNCHANGED <<streams, isRecording, error>>
  /\ UNCHANGED <<mounted, transcription, isLoading, audioUrl,
                 micPermission, mediaRecorderRef, timerRef, pendingStarts,
                 urlRevokes, inflight, browserPerm, permEvents, queries,
                 listeners, pxIn, pxReply,
                 isPlaying, audioPlaying, posts, upstreamCalls>>

\* ------------------------------------------------------------------------
\* The recorder's stop event   (lines 121-131)
\* ------------------------------------------------------------------------
OnStop(r) ==
  /\ r \in DOMAIN streams
  /\ streams[r].rec = "stopping"
  /\ LET url == Len(urlRevokes) + 1
         ur == Append(urlRevokes, 0)
         ss == [streams EXCEPT ![r] =
                  [@ EXCEPT !.rec = "inactive", !.tracks = "stopped"]]
     IN  Rerender(IF mounted THEN url ELSE audioUrl, ss, ur, timerRef)
  /\ UNCHANGED <<mounted, isRecording, transcription, error, isLoading,
                 remainingTime, micPermission, mediaRecorderRef, timerRef,
                 pendingStarts, inflight, browserPerm, permEvents,
                 listeners, pxIn, pxReply,
                 isPlaying, posts, upstreamCalls>>

\* ------------------------------------------------------------------------
\* discardRecording   (lines 195-202)
\* ------------------------------------------------------------------------
Discard ==
  /\ mounted
  /\ PreviewShown
  /\ IF audioUrl # 0
       THEN Rerender(0, streams, RevokeObjectURL(urlRevokes, audioUrl), timerRef)
       ELSE Rerender(audioUrl, streams, urlRevokes, timerRef)
  /\ transcription' = ""
  /\ error' = NoError
  /\ UNCHANGED <<mounted, isRecording, isLoading, remainingTime,
                 micPermission, mediaRecorderRef, timerRef, pendingStarts,
                 inflight, browserPerm, permEvents, listeners, pxIn, pxReply,
                 isPlaying, posts, upstreamCalls>>

\* ------------------------------------------------------------------------
\* sendAudioToAPI   (lines 204-250)
\* ------------------------------------------------------------------------
\* The request the component sends is a well-formed multipart form.
ClientRequest == [readable |-> TRUE]

\* What `await fetch('/api/stt', ...)` yields: the fetch rejects, or the
\* proxy's response arrives.
FetchOutcomes ==
  {Unreachable} \cup {POST(ClientRequest, up) : up \in UpstreamOutcomes}

\* apiResponse.ok
ResponseOk(resp) == resp.status >= 200 /\ resp.status <= 299

\* `HTTP error! status: ${apiResponse.status}`
HttpErrorText(status) ==
  IF status = 500 THEN "HTTP error! status: 500"
  ELSE IF status = 401 THEN "HTTP error! status: 401"
  ELSE "HTTP error! status: other"

\* a JavaScript string is truthy when it is present and not empty
Truthy(present, str) == present /\ str # ""

\* The click: up to the await of the POST.  Reading the blob back from the
\* live object URL is local and is taken together with the click.
Submit ==
  /\ mounted
  /\ SubmitEnabled
  /\ audioUrl # 0
  /\ inflight < MaxInFlight
  /\ isLoading' = TRUE
  /\ error' = NoError
  /\ inflight' = inflight + 1
  /\ posts' = posts + 1
  /\ UNCHANGED <<mounted, isRecording, transcription, remainingTime,
                 audioUrl, micPermission, mediaRecorderRef, timerRef,
                 pendingStarts, streams, urlRevokes, browserPerm,
                 permEvents, queries, listeners, pxIn, pxReply,
                 isPlaying, audioPlaying, upstreamCalls>>

\* sendAudioToAPI without the else branch that reports a missing output
sendAudioToAPI_NoShapeCheck(resp) ==
  IF resp.kind = "unreachable"
    THEN [transcription |-> transcription,
          error |-> <<FailedMsg, "Failed to fetch">>]
  ELSE LET data == JsonParse(resp.payload) IN
    IF ~data.ok
      THEN [transcription |-> transcription,
            error |-> <<FailedMsg, "Unexpected token">>]
    ELSE IF ~ResponseOk(resp)
      THEN [transcription |-> transcription,
            error |-> <<FailedMsg, HttpErrorText(resp.status)>>]
    ELSE IF Truthy(data.val.hasError, data.val.error)
      THEN [transcription |-> transcription,
            error |-> <<FailedMsg, data.val.error>>]
    ELSE IF Truthy(data.val.hasOutput, data.val.output)
      THEN [transcription |-> data.val.output, error |-> error]
    ELSE [transcription |-> transcription, error |-> error]

\* The state the continuation after the POST sets (lines 225-246).
sendAudioToAPI(resp) ==
  IF resp.kind = "unreachable"
    THEN [transcription |-> transcription,
          error |-> <<FailedMsg, "Failed to fetch">>]
  ELSE LET data == JsonParse(resp.payload) IN
    IF ~data.ok
      THEN [transcription |-> transcription,
            error |-> <<FailedMsg, "Unexpected token">>]
    ELSE IF ~ResponseOk(resp)
      THEN [transcription |-> transcription,
            error |-> <<FailedMsg, HttpErrorText(resp.status)>>]
    ELSE IF Truthy(data.val.hasError, data.val.error)
      THEN [transcription |-> transcription,
            error |-> <<FailedMsg, data.val.error>>]
    ELSE IF Truthy(data.val.hasOutput, data.val.output)
      THEN [transcription |-> data.val.output, error |-> error]
    ELSE [transcription |-> transcription, error |-> <<UnexpectedMsg>>]

\* sendAudioToAPI with setIsLoading(false) at the end of the try block
\* instead of in `finally`: a throw leaves the loading flag set
SubmitSettle_NoFinally(resp) ==
  /\ inflight > 0
  /\ inflight' = inflight - 1
  /\ posts' = posts - 1
  /\ IF mounted
       THEN LET r == sendAudioToAPI(resp) IN
              /\ transcription' = r.transcription
              /\ error' = r.error
              /\ isLoading' = IF Len(r.error) >= 1 /\ r.error[1] = FailedMsg
                                THEN isLoading ELSE FALSE
       ELSE UNCHANGED <<transcription, error, isLoading>>
  /\ UNCHANGED <<mounted, isRecording, remainingTime, audioUrl,
                 micPermission, mediaRecorderRef, timerRef, pendingStarts,
                 streams, urlRevokes, browserPerm, permEvents, queries,
                 listeners, pxIn, pxReply,
                 isPlaying, audioPlaying, upstreamCalls>>

\* The continuation of a pending submit runs with resp; `finally` clears
\* the loading flag.
SubmitContinue(resp) ==
  /\ inflight > 0
  /\ inflight' = inflight - 1
  /\ posts' = posts - 1
  /\ IF mounted
       THEN LET r == sendAudioToAPI(resp) IN
              /\ transcription' = r.transcription
              /\ error' = r.error
              /\ isLoading' = FALSE
       ELSE UNCHANGED <<transcription, error, isLoading>>
  /\ UNCHANGED <<mounted, isRecording, remainingTime, audioUrl,
                 micPermission, mediaRecorderRef, timerRef, pendingStarts,
                 streams, urlRevokes, browserPerm, permEvents, queries,
                 listeners, isPlaying, audioPlaying>>

\* A pending submit settles with resp.
SubmitSettle(resp) ==
  /\ SubmitContinue(resp)
  /\ UNCHANGED <<pxIn, pxReply, upstreamCalls>>

\* ------------------------------------------------------------------------
\* Preview playback   (lines 180-193, 297-305)
\* ------------------------------------------------------------------------
\* The play button of the preview.  audioRef.current is the <audio>
\* element whenever the preview is rendered.  The click is a user gesture
\* and the source is the recorder's own blob, so play() starts playback;
\* pause() on an element that is not playing does nothing.
handlePlayPause ==
  /\ mounted
  /\ PreviewShown
  /\ audioPlaying' = ~isPlaying
  /\ isPlaying' = ~isPlaying
  /\ UNCHANGED <<mounted, isRecording, transcription, error, isLoading,
                 remainingTime, audioUrl, micPermission, mediaRecorderRef,
                 timerRef, pendingStarts, streams, urlRevokes, inflight,
                 browserPerm, permEvents, queries, listeners, pxIn, pxReply,
                 posts, upstreamCalls>>

\* Playback reaches the end of the recording: the 'ended' event.
handleAudioEnded ==
  /\ mounted
  /\ audioPlaying
  /\ audioPlaying' = FALSE
  /\ isPlaying' = FALSE
  /\ UNCHANGED <<mounted, isRecording, transcription, error, isLoading,
                 remainingTime, audioUrl, micPermission, mediaRecorderRef,
                 timerRef, pendingStarts, streams, urlRevokes, inflight,
                 browserPerm, permEvents, queries, listeners, pxIn, pxReply,
                 posts, upstreamCalls>>

\* ------------------------------------------------------------------------
\* Unmount: the effect cleanup   (lines 67-74)
\* ------------------------------------------------------------------------
Unmount ==
  /\ mounted
  /\ mounted' = FALSE
  /\ streams' = ClearInterval(streams, timerRef)
  /\ urlRevokes' = CleanupUrls(urlRevokes, audioUrl)
  /\ audioPlaying' = FALSE
  /\ UNCHANGED <<isRecording, transcription, error, isLoading,
                 remainingTime, audioUrl, micPermission, mediaRecorderRef,
                 timerRef, pendingStarts, inflight, browserPerm, permEvents,
                 queries, listeners, pxIn, pxReply,
                 isPlaying, posts, upstreamCalls>>

\* ------------------------------------------------------------------------
\* checkMicPermission and its change listener   (lines 54-65)
\* ------------------------------------------------------------------------
\* permissions.query settles: it resolves (the state is copied and a
\* listener is added) or it rejects (the catch only logs).
QueryResolve(ok) ==
  /\ queries > 0
  /\ queries' = queries - 1
  /\ micPermission' = IF ok /\ mounted THEN browserPerm ELSE micPermission
  /\ listeners' = (listeners \/ ok)
  /\ UNCHANGED <<mounted, isRecording, transcription, error, isLoading,
                 remainingTime, audioUrl, mediaRecorderRef, timerRef,
                 pendingStarts, streams, urlRevokes, inflight, browserPerm,
                 permEvents, pxIn, pxReply,
                 isPlaying, audioPlaying, posts, upstreamCalls>>

\* The user or the browser changes the permission; a change event is
\* queued when a PermissionStatus with a listener exists.
BrowserPermChange(p) ==
  /\ p \in PermissionStates
  /\ p # browserPerm
  /\ listeners => permEvents < MaxPermEvents
  /\ browserPerm' = p
  /\ permEvents' = IF listeners THEN permEvents + 1 ELSE permEvents
  /\ UNCHANGED <<mounted, isRecording, transcription, error, isLoading,
                 remainingTime, audioUrl, micPermission, mediaRecorderRef,
                 timerRef, pendingStarts, streams, urlRevokes, inflight,
                 queries, listeners, pxIn, pxReply,
                 isPlaying, audioPlaying, posts, upstreamCalls>>

\* a change listener that sets the state it saw when it was registered
PermChangeDispatch_Stale ==
  /\ permEvents > 0
  /\ permEvents' = permEvents - 1
  /\ UNCHANGED <<mounted, isRecording, transcription, error, isLoading,
                 remainingTime, audioUrl, micPermission, mediaRecorderRef,
                 timerRef, pendingStarts, streams, urlRevokes, inflight,
                 browserPerm, queries, listeners, pxIn, pxReply,
                 isPlaying, audioPlaying, posts, upstreamCalls>>

\* The change listener runs: it copies result.state as it is now.
PermChangeDispatch ==
  /\ permEvents > 0
  /\ permEvents' = permEvents - 1
  /\ micPermission' = IF mounted THEN browserPerm ELSE micPermission
  /\ UNCHANGED <<mounted, isRecording, transcription, error, isLoading,
                 remainingTime, audioUrl, mediaRecorderRef, timerRef,
                 pendingStarts, streams, urlRevokes, inflight, browserPerm,
                 queries, listeners, pxIn, pxReply,
                 isPlaying, audioPlaying, posts, upstreamCalls>>

\* ------------------------------------------------------------------------
\* The recorder session
\* ------------------------------------------------------------------------
\* What the user, the browser and the network do to the session while the
\* microphone permission stays what it was at mount and the preview is not
\* played.  The permission only gates the record button
\* (RecordButtonDisabled) and getUserMedia; playback only touches isPlaying
\* and the <audio> element.
SessionNext ==
  \/ StartClick
  \/ \E i \in 1..MaxStreams : GetUserMediaReject(i)
  \/ \E i \in 1..MaxStreams, o \in StartOutcomes : GetUserMediaResolve(i, o)
  \/ \E throws \in BOOLEAN : StopClick(throws)
  \/ \E t \in 1..MaxStreams, throws \in BOOLEAN : Tick(t, throws)
  \/ \E r \in 1..MaxStreams : OnStop(r)
  \/ Discard
  \/ Submit
  \/ \E resp \in FetchOutcomes : SubmitSettle(resp)
  \/ Unmount
  \/ \E ok \in BOOLEAN : QueryResolve(ok)

Next == SessionNext

Spec == Init /\ [][Next]_vars

\* The same session in a browser whose microphone permission also changes
\* while the component is mounted.
PermNext ==
  \/ SessionNext
  \/ \E p \in PermissionStates : BrowserPermChange(p)
  \/ PermChangeDispatch

PermSpec == Init /\ [][PermNext]_vars

\* The same session with the preview being played.  Playback only touches
\* isPlaying and the <audio> element.
PlayNext ==
  \/ SessionNext
  \/ handlePlayPause
  \/ handleAudioEnded

PlaySpec == Init /\ [][PlayNext]_vars

\* The session with the guarantee the network stack gives: a fetch that was
\* issued settles (it resolves, or it rejects on a network error or a
\* timeout), so a pending continuation of sendAudioToAPI eventually runs.
FairSpec ==
  /\ Init
  /\ [][Next]_vars
  /\ WF_vars(\E resp \in FetchOutcomes : SubmitSettle(resp))

\* ------------------------------------------------------------------------
\* The proxy on its own: one inbound request, handled by POST
\* ------------------------------------------------------------------------
ProxyInit ==
  /\ UiInit
  /\ pxIn \in [request : Requests, upstream : UpstreamOutcomes]
  /\ pxReply = NoReply
  /\ upstreamCalls = 0

ProxyHandle ==
  /\ pxReply = NoReply
  /\ pxReply' = POST(pxIn.request, pxIn.upstream)
  /\ upstreamCalls' = UpstreamFetches(pxIn.request, pxIn.upstream)
  /\ UNCHANGED <<pxIn, mounted, isRecording, transcription, error,
                 isLoading, remainingTime, audioUrl, micPermission,
                 mediaRecorderRef, timerRef, pendingStarts, streams,
                 urlRevokes, inflight, browserPerm, permEvents, queries,
                 listeners, isPlaying, audioPlaying, posts>>

ProxyNext == ProxyHandle

ProxySpec == ProxyInit /\ [][ProxyNext]_vars

\* ------------------------------------------------------------------------
\* Submits of a held recording, through the proxy
\* ------------------------------------------------------------------------
\* The session after one recording: Start, the microphone granted, Stop,
\* the stop event delivered; the preview is shown.
Held ==
  /\ mounted = TRUE
  /\ isRecording = FALSE
  /\ transcription = ""
  /\ error = NoError
  /\ isLoading = FALSE
  /\ remainingTime = MAX_RECORDING_TIME
  /\ audioUrl = 1
  /\ micPermission = "prompt"
  /\ mediaRecorderRef = 1
  /\ timerRef = 1
  /\ pendingStarts = <<>>
  /\ streams = <<[rec |-> "inactive", tracks |-> "stopped",
                  timerLive |-> FALSE, closure |-> [isRecording |-> FALSE]]>>
  /\ urlRevokes = <<0>>
  /\ inflight = 0
  /\ browserPerm \in {"prompt", "granted"}
  /\ permEvents = 0
  /\ queries = 2
  /\ listeners = FALSE
  /\ isPlaying = FALSE
  /\ audioPlaying = FALSE
  /\ posts = 0

RelayInit ==
  /\ Held
  /\ pxIn \in [request : {ClientRequest}, upstream : UpstreamOutcomes]
  /\ pxReply = NoReply
  /\ upstreamCalls = 0

\* the proxy handles the request the client has sent
RelayHandle == posts > 0 /\ ProxyHandle

\* the proxy's response reaches the continuation of sendAudioToAPI
RelayDeliver ==
  /\ pxReply # NoReply
  /\ SubmitContinue(pxReply)
  /\ pxReply' = NoReply
  /\ UNCHANGED <<pxIn, upstreamCalls>>

\* the client's fetch rejects: the request never reaches the proxy
RelayFetchFails == pxReply = NoReply /\ SubmitSettle(Unreachable)

RelayNext ==
  \/ Submit
  \/ RelayHandle
  \/ RelayDeliver
  \/ RelayFetchFails
  \/ Discard

RelaySpec == RelayInit /\ [][RelayNext]_vars

TypeOK ==
  /\ mounted \in BOOLEAN
  /\ isRecording \in BOOLEAN
  /\ transcription \in Outputs \cup {""}
  /\ isLoading \in BOOLEAN
  /\ remainingTime \in Int
  /\ audioUrl \in 0..Len(urlRevokes)
  /\ micPermission \in PermissionStates
  /\ mediaRecorderRef \in 0..Len(streams)
  /\ timerRef \in 0..Len(streams)
  /\ inflight \in Nat
  /\ browserPerm \in PermissionStates
  /\ permEvents \in 0..MaxPermEvents
  /\ queries \in Nat
  /\ listeners \in BOOLEAN
  /\ isPlaying \in BOOLEAN
  /\ audioPlaying \in BOOLEAN
  /\ posts \in Nat
  /\ upstreamCalls \in Nat

\* ========================================================================
\* Claims
\* ========================================================================
\* a recorder whose stop event is still to be delivered
Finalizing == \E r \in DOMAIN streams : streams[r].rec = "stopping"

\* C1: when the countdown reaches 0 during a recording, the recording is
\* stopped by that tick: isRecording becomes false and a recorder is
\* finalizing (its stop event will produce the audio reference).
C1_AutoStopAtZero ==
  [][(mounted /\ isRecording /\ remainingTime # 0 /\ remainingTime' = 0)
       => (~isRecording' /\ Finalizing')]_vars

\* C2: at most one object URL is live at a time, no URL is revoked twice,
\* and once the component is gone and no recorder is finalizing every URL
\* that was created has been revoked.
LiveUrls == {u \in DOMAIN urlRevokes : urlRevokes[u] = 0}

C2_OneLiveRevokedOnce ==
  /\ Cardinality(LiveUrls) <= 1
  /\ \A u \in DOMAIN urlRevokes : urlRevokes[u] <= 1
  /\ (~mounted /\ ~Finalizing) => LiveUrls = {}

\* responses of the proxy by what they carry
IsResponse(resp) == resp.kind = "response" /\ resp.payload.json

HasErrorField(resp) == IsResponse(resp) /\ resp.payload.val.hasError

HasOutputField(resp) == IsResponse(resp) /\ resp.payload.val.hasOutput

ErrorResponse(resp) ==
  IsResponse(resp) /\ (HasErrorField(resp) \/ resp.status >= 400)

SuccessResponse(resp) ==
  /\ IsResponse(resp)
  /\ ResponseOk(resp)
  /\ ~HasErrorField(resp)
  /\ HasOutputField(resp)
  /\ resp.payload.val.output # ""

\* C3: a submit that ends in an error (error field in the body, or status
\* >= 400) leaves an error shown and no transcript shown.
C3_NoStaleTranscript ==
  [][\A resp \in FetchOutcomes :
       (mounted /\ ErrorResponse(resp) /\ SubmitSettle(resp))
         => (ErrorShown' /\ ~TranscriptShown')]_vars

\* C4: the submit control is enabled only with a finalized recording, the
\* loading flag clear and no request pending; at most one submit request
\* is in flight.
C4_SingleSubmission ==
  /\ inflight <= 1
  /\ (mounted /\ SubmitEnabled) => (audioUrl # 0 /\ ~isLoading /\ inflight = 0)

C4_Witness ==
  mounted /\ inflight = 1 /\ audioUrl # 0 /\ isLoading /\ ~SubmitEnabled

\* C5: while recording every tick decreases the countdown by exactly 1
\* (so no interval can fire while the countdown of a recording is at 0,
\* where it would leave it at 0), and the countdown is always within 0..120.
LiveTimers == {t \in DOMAIN streams : streams[t].timerLive}

C5_CountdownStep ==
  /\ [](remainingTime \in 0..120)
  /\ []((mounted /\ isRecording /\ LiveTimers # {}) => remainingTime >= 1)
  /\ [][\A t \in 1..MaxStreams, throws \in BOOLEAN :
          (mounted /\ isRecording /\ Tick(t, throws))
            => remainingTime' = remainingTime - 1]_vars

\* C6: a submit that settles with a success status, a non-empty output and
\* no error field leaves exactly that output as the transcript and no error.
C6_SuccessShowsOutput ==
  [][\A resp \in FetchOutcomes :
       (mounted /\ SuccessResponse(resp) /\ SubmitSettle(resp))
         => (transcription' = resp.payload.val.output /\ error' = NoError)]_vars

\* C7: a submit that settles with a body that has neither an output nor an
\* error field leaves the "unexpected format" error shown.
C7_UnexpectedFormat ==
  [][\A resp \in FetchOutcomes :
       (mounted /\ IsResponse(resp) /\ ~HasOutputField(resp)
          /\ ~HasErrorField(resp) /\ SubmitSettle(resp))
         => error' = <<UnexpectedMsg>>]_vars

C7_Witness ==
  mounted /\ error = <<UnexpectedMsg>> /\ ~isLoading /\ inflight = 0 /\ audioUrl # 0

\* C8: Discard while a transcript or an error is shown leaves the idle
\* display: no transcript, no error, no audio reference, the start control,
\* the "2:00" label and no preview controls.
IdleDisplay ==
  /\ transcription = ""
  /\ error = NoError
  /\ audioUrl = 0
  /\ StartControlShown
  /\ TimerLabel = DefaultLabel
  /\ ~PreviewShown

C8_DiscardToIdle ==
  [][((TranscriptShown \/ ErrorShown) /\ Discard) => IdleDisplay']_vars

\* C9: while the observed permission is 'denied' the start control is not
\* enabled and the warning is shown; once a listener is registered and no
\* change event is waiting, the observed permission is the browser's, so
\* after a change to 'granted' the start control is enabled again whenever
\* it is shown and no submit is loading.
C9_PermissionGate ==
  /\ (mounted /\ micPermission = "denied")
       => (~StartControlEnabled /\ WarningShown)
  /\ (mounted /\ listeners /\ permEvents = 0) => micPermission = browserPerm
  /\ (mounted /\ listeners /\ permEvents = 0 /\ browserPerm = "granted"
        /\ StartControlShown /\ ~isLoading) => StartControlEnabled

\* the permission was observed as denied, the browser now grants it and
\* the change event is about to reach the listener
C9_Witness ==
  /\ mounted /\ listeners
  /\ micPermission = "denied" /\ WarningShown /\ ~StartControlEnabled
  /\ browserPerm = "granted" /\ permEvents = 1
  /\ StartControlShown /\ ~isLoading

\* C10 (as claimed): 200 with the upstream body on an API-level success,
\* 500 with the fixed body when reading the request, calling upstream or
\* parsing fails, and no upstream failure relayed with a success status.
RequestForwarded ==
  /\ pxIn.request.readable
  /\ pxIn.upstream.kind = "response"
  /\ pxIn.upstream.payload.json

UpstreamFailed ==
  \/ pxIn.upstream.kind = "unreachable"
  \/ ~pxIn.upstream.payload.json
  \/ pxIn.upstream.status >= 400

FixedErrorReply ==
  [kind |-> "response", status |-> 500,
   payload |-> [json |-> TRUE, val |-> ProxyErrorBody]]

C10_ProxyStatus ==
  pxReply # NoReply =>
    /\ (RequestForwarded /\ ResponseOk(pxIn.upstream))
         => (pxReply.status = 200 /\ pxReply.payload = pxIn.upstream.payload)
    /\ ~RequestForwarded => pxReply = FixedErrorReply
    /\ UpstreamFailed => ~ResponseOk(pxReply)

\* C10 (amended): 200 with the upstream body whenever the request was read
\* and upstream answered with a JSON body, whatever the upstream status;
\* 500 with the fixed body otherwise.
C10_ProxyRelay ==
  pxReply # NoReply =>
    /\ RequestForwarded
         => (pxReply.status = 200 /\ pxReply.payload = pxIn.upstream.payload)
    /\ ~RequestForwarded => pxReply = FixedErrorReply

\* an upstream 401 with a JSON body has been relayed with status 200
C10_Witness ==
  /\ pxReply # NoReply
  /\ RequestForwarded
  /\ pxIn.upstream.status = 401
  /\ pxReply.status = 200

\* C11: when getUserMedia rejects (access denied or no device), the session
\* is idle afterwards (not recording, no countdown interval live, no audio
\* reference) and the error holds the 'Error accessing microphone' message.
MicErrorShown == Len(error) >= 1 /\ error[1] = MicErrorMsg

C11_StartFailureIdle ==
  [][\A i \in 1..MaxStreams :
       (mounted /\ GetUserMediaReject(i))
         => (~isRecording' /\ LiveTimers' = {} /\ audioUrl' = 0
               /\ MicErrorShown')]_vars

\* C12: the countdown interval is cancelled on stop and on unmount: once a
\* stop click has stopped the recording no interval is live, and no
\* interval is live while the component is unmounted.
C12_IntervalCancelled ==
  /\ [](~mounted => LiveTimers = {})
  /\ [][\A throws \in BOOLEAN :
          (StopClick(throws) /\ ~isRecording') => LiveTimers' = {}]_vars

\* C13: every issued submit eventually settles and the loading flag is
\* cleared: while the component is mounted, isLoading = TRUE leads to
\* isLoading = FALSE, and a request in flight leads to none in flight,
\* whatever the response and also after a Discard.
C13_LoadingClears ==
  /\ (mounted /\ isLoading) ~> (~isLoading \/ ~mounted)
  /\ (inflight > 0) ~> (inflight = 0)

\* a submit has settled with a failure after its recording was discarded,
\* and the loading flag is clear
C13_Witness ==
  /\ mounted /\ ~isLoading /\ inflight = 0 /\ audioUrl = 0
  /\ Len(error) >= 1 /\ error[1] = FailedMsg

Recorders == [r \in DOMAIN streams |-> streams[r].rec]

C15_StopToStopped ==
  /\ [][\A throws \in BOOLEAN :
          (isRecording /\ StopClick(throws)) => (~isRecording' /\ Finalizing')]_vars
  /\ [][\A r \in 1..MaxStreams :
          (mounted /\ OnStop(r))
            => /\ Len(urlRevokes') = Len(urlRevokes) + 1
               /\ audioUrl' = Len(urlRevokes')
               /\ urlRevokes'[audioUrl'] = 0]_vars
  /\ [][\A t \in 1..MaxStreams, throws \in BOOLEAN :
          (mounted /\ ~isRecording /\ Tick(t, throws))
            => /\ isRecording' = isRecording
               /\ Recorders' = Recorders
               /\ error' = error
               /\ audioUrl' = audioUrl]_vars

\* C16: whenever the session is recording the user can stop it: in every
\* state of the mounted component with isRecording true, the stop control
\* is rendered and enabled.
C16_CanAlwaysStop == (mounted /\ isRecording) => StopControlEnabled

\* C17: the response of a submit whose recording was discarded while the
\* request was in flight sets neither the transcript nor the error: a
\* submit that settles while no recording is held (audioUrl null) leaves
\* both as they are.
C17_NoLateResult ==
  [][\A resp \in FetchOutcomes :
       (mounted /\ audioUrl = 0 /\ SubmitSettle(resp))
         => (transcription' = transcription /\ error' = error)]_vars

\* C18: the microphone is held only while recording: whenever the session
\* is not recording (the component is unmounted, or isRecording is false)
\* and no Start is awaiting the microphone, every acquired stream has had
\* its tracks stopped.
HeldStreams == {r \in DOMAIN streams : streams[r].tracks = "live"}

C18_MicReleased ==
  (~(mounted /\ isRecording) /\ pendingStarts = <<>>) => HeldStreams = {}

\* C19: the isPlaying flag agrees with the playback state of the preview
\* audio: while the component is mounted, isPlaying is true exactly when
\* the preview audio is playing.
C19_PlayingFlagAgrees == mounted => (isPlaying = audioPlaying)

====
